---- MODULE Spec2Model ----
(***************************************************************************)
(* OKLCH palette generator: the App component (steps, global chroma,       *)
(* contrast targets, colour families, persistence to local storage), the   *)
(* PaletteRow component (hex input, rendering of the generated steps) and  *)
(* the colour utilities generatePalette / adjustLightnessForContrast.      *)
(*                                                                         *)
(* Number representation (TLC has 32-bit integers, the code has doubles):  *)
(*   chroma            hundredths          0.15  -> 15                     *)
(*   hue               whole degrees       260   -> 260                    *)
(*   family lightness  thousandths         0.6   -> 600                    *)
(*   contrast, target  thousandths         4.5   -> 4500                   *)
(*   solver lightness  units of 2^-20      0.5   -> 524288  (the 20        *)
(*                     bisection midpoints are exact in these units, as    *)
(*                     they are exact in binary floating point)            *)
(*   exact lightness   a fraction [num, den]                               *)
(***************************************************************************)
EXTENDS Integers, Sequences, FiniteSets, TLC

\* ------------------------------------------------------------------ bounds
\* largest step count the '+' button is allowed to reach in the model
MaxSteps == 19
\* largest number of colour families "Add Color Family" may build up
MaxPalettes == 2
\* number of values Date.now() takes during a run
MaxClock == 2
\* largest step count of a direct generatePalette call
MaxGenSteps == 19

\* ------------------------------------------------------------- JS values
Undefined == [type |-> "undefined"]
Null == [type |-> "null"]
NaN == [type |-> "NaN"]
Num(v) == [type |-> "number", val |-> v]
IsNum(x) == x.type = "number"

\* JavaScript truthiness of a number, null, undefined or NaN
Truthy(x) == IsNum(x) /\ x.val # 0

Abs(x) == IF x < 0 THEN -x ELSE x
Max(a, b) == IF a >= b THEN a ELSE b
Min(a, b) == IF a <= b THEN a ELSE b

\* ------------------------------------------------------------ step names
STEP_NAMES == << "100", "99", "98", "95", "90", "80", "70", "60", "50",
                 "40", "35", "30", "25", "20", "15", "10", "5", "0" >>

Digit == << "0", "1", "2", "3", "4", "5", "6", "7", "8", "9" >>

\* `${i}` for a non-negative integer i
RECURSIVE DecimalString(_)
DecimalString(i) ==
  IF i < 10 THEN Digit[i + 1]
  ELSE DecimalString(i \div 10) \o Digit[(i % 10) + 1]

\* StepName with the label list read one position too far
StepNameOffByOne(i) ==
  IF i + 2 \in DOMAIN STEP_NAMES /\ STEP_NAMES[i + 2] # ""
  THEN STEP_NAMES[i + 2]
  ELSE DecimalString(i)

\* STEP_NAMES[i] || `${i}`  (every label is a non-empty string, so truthy)
StepName(i) ==
  IF i + 1 \in DOMAIN STEP_NAMES /\ STEP_NAMES[i + 1] # ""
  THEN STEP_NAMES[i + 1]
  ELSE DecimalString(i)

\* STEP_NAMES[i] || i, rendered as text by React
StepLabel(i) ==
  IF i + 1 \in DOMAIN STEP_NAMES /\ STEP_NAMES[i + 1] # ""
  THEN STEP_NAMES[i + 1]
  ELSE DecimalString(i)

\* --------------------------------------------------- culori: wcagContrast
\* cos and sin of the hues the model uses, in thousandths
Cos1000 ==
  0 :> 1000 @@ 28 :> 883 @@ 39 :> 777 @@ 91 :> -17 @@ 140 :> -766 @@
  152 :> -883 @@ 213 :> -839 @@ 260 :> -174 @@ 275 :> 87 @@ 282 :> 208 @@
  286 :> 276 @@ 293 :> 391 @@ 294 :> 407 @@ 313 :> 682 @@ 340 :> 940 @@
  357 :> 999

Sin1000 ==
  0 :> 0 @@ 28 :> 469 @@ 39 :> 629 @@ 91 :> 1000 @@ 140 :> 643 @@
  152 :> 469 @@ 213 :> -545 @@ 260 :> -985 @@ 275 :> -996 @@ 282 :> -978 @@
  286 :> -961 @@ 293 :> -921 @@ 294 :> -914 @@ 313 :> -731 @@ 340 :> -342 @@
  357 :> -52

\* lightness 1 in solver units (2^20)
LUnit == 1048576

\* 0.05 in units of 2^-20, the constant of the WCAG contrast formula
LumOffset == 52429

\* v^3 for v in units of 2^-10, result in units of 2^-20
Cube(v) == ((v * v) \div 1024) * v

\* One OKLab -> LMS coordinate: L + ka*a + kb*b, in units of 2^-10, where
\* a = c cos h, b = c sin h and ka, kb are given in units of 10^-4.
LmsRoot(x, c, h, ka, kb) ==
  x + ((((ka * c * Cos1000[h] + kb * c * Sin1000[h]) \div 10000) * 1024)
       \div 100000)

\* Relative luminance of the OKLCH colour (mid, c, h), in units of 2^-20:
\* OKLCH -> OKLab -> LMS -> linear sRGB, Y = 0.2126 R + 0.7152 G + 0.0722 B,
\* which is -0.041 l^3 + 1.113 m^3 - 0.072 s^3.  No gamut clipping.
Luminance(mid, c, h) ==
  LET x == mid \div 1024
      cl == Cube(LmsRoot(x, c, h, 3963, 2158))
      cm == Cube(LmsRoot(x, c, h, -1056, -639))
      cs == Cube(LmsRoot(x, c, h, -895, -12915))
  IN  (1113 * cm - 41 * cl - 72 * cs) \div 1000

\* wcagContrast(color, '#ffffff') in thousandths: the lighter luminance plus
\* 0.05 over the darker plus 0.05; white has luminance 1.
WcagContrast(mid, c, h) ==
  LET y == Luminance(mid, c, h)
      hi == Max(y, LUnit)
      lo == Min(y, LUnit)
  IN  (1000 * (hi + LumOffset)) \div (lo + LumOffset)

\* ------------------------------------------- adjustLightnessForContrast
MaxIterations == 20
Tolerance == 50
Infinity == [type |-> "Infinity"]

\* LessThan with minDiff starting as 0 instead of Infinity
LessThanZeroInit(diff, minDiff) ==
  IF minDiff = Infinity THEN diff < 0 ELSE diff < minDiff.val

\* diff < minDiff, where minDiff starts as Infinity
LessThan(diff, minDiff) ==
  IF minDiff = Infinity THEN TRUE ELSE diff < minDiff.val

\* Bisect with the search direction reversed
RECURSIVE BisectWrongWay(_, _, _, _, _, _, _, _)
BisectWrongWay(c, h, targetContrast, i, min, max, bestL, minDiff) ==
  IF i >= MaxIterations THEN [l |-> bestL, evaluations |-> i]
  ELSE
    LET mid == (min + max) \div 2
        currentContrast == WcagContrast(mid, c, h)
        diff == Abs(currentContrast - targetContrast)
        better == LessThan(diff, minDiff)
        minDiff1 == IF better THEN Num(diff) ELSE minDiff
        bestL1 == IF better THEN Num(mid) ELSE bestL
    IN  IF Abs(currentContrast - targetContrast) < Tolerance
        THEN [l |-> Num(mid), evaluations |-> i + 1]
        ELSE IF currentContrast > targetContrast
             THEN BisectWrongWay(c, h, targetContrast, i + 1, min, mid, bestL1, minDiff1)
             ELSE BisectWrongWay(c, h, targetContrast, i + 1, mid, max, bestL1, minDiff1)

\* The loop of adjustLightnessForContrast from iteration i on: the value
\* returned and the number of wcagContrast evaluations made up to the return.
RECURSIVE Bisect(_, _, _, _, _, _, _, _)
Bisect(c, h, targetContrast, i, min, max, bestL, minDiff) ==
  IF i >= MaxIterations THEN [l |-> bestL, evaluations |-> i]
  ELSE
    LET mid == (min + max) \div 2
        currentContrast == WcagContrast(mid, c, h)
        diff == Abs(currentContrast - targetContrast)
        better == LessThan(diff, minDiff)
        minDiff1 == IF better THEN Num(diff) ELSE minDiff
        bestL1 == IF better THEN Num(mid) ELSE bestL
    IN  IF Abs(currentContrast - targetContrast) < Tolerance
        THEN [l |-> Num(mid), evaluations |-> i + 1]
        ELSE IF currentContrast < targetContrast
             THEN Bisect(c, h, targetContrast, i + 1, min, mid, bestL1, minDiff1)
             ELSE Bisect(c, h, targetContrast, i + 1, mid, max, bestL1, minDiff1)

\* adjustLightnessForContrast(c, h, targetContrast): Num(lightness) or Null
adjustLightnessForContrast(c, h, targetContrast) ==
  Bisect(c, h, targetContrast, 0, 0, LUnit, Null, Infinity).l

\* ------------------------------------------------------ generatePalette
\* DefaultLightness with the bounds of the source comment, 0.95 down to 0.10
DefaultLightnessComment(i, steps) ==
  [num |-> 95 * (steps - 1) - 85 * i, den |-> 100 * (steps - 1)]

\* 0.97 - (i / (steps - 1)) * 0.9 as an exact fraction
DefaultLightness(i, steps) ==
  [num |-> 97 * (steps - 1) - 90 * i, den |-> 100 * (steps - 1)]

\* parseFloat(currentL.toFixed(3)) in thousandths.  A solver lightness
\* (den = LUnit) is an exact double and an exact tie rounds up.  A default
\* lightness is the double nearest to the fraction; at the ties that occur
\* for the step counts of this model (9 and 17 steps) that double lies below
\* the tie, e.g. 0.8574999999999999, and toFixed rounds it down.
ToFixed3(x) ==
  IF x.den = LUnit
  THEN (x.num * 1000 + (LUnit \div 2)) \div LUnit
  ELSE (2000 * x.num + x.den - 1) \div (2 * x.den)

\* oklch(l, c, h): the CSS string `oklch(${l} ${c} ${h})`
oklch(l, c, h) == << "oklch", l.num, l.den, c, h >>

\* contrastTargets[i]: the property of the object whose key is `${i}`
Lookup(targets, i) ==
  IF DecimalString(i) \in DOMAIN targets
  THEN targets[DecimalString(i)]
  ELSE Undefined

\* The lightness chosen for index i and whether the step is contrast forced.
StepLightness(c, h, steps, contrastTargets, i) ==
  IF Truthy(Lookup(contrastTargets, i))
  THEN LET adjustedL == adjustLightnessForContrast(c, h, Lookup(contrastTargets, i).val)
       IN  IF adjustedL # Null
           THEN [currentL |-> [num |-> adjustedL.val, den |-> LUnit],
                 isContrastForced |-> TRUE]
           ELSE [currentL |-> DefaultLightness(i, steps),
                 isContrastForced |-> FALSE]
  ELSE [currentL |-> DefaultLightness(i, steps), isContrastForced |-> FALSE]

\* The object pushed for index i.
PaletteStep(id, c, h, steps, contrastTargets, i) ==
  LET s == StepLightness(c, h, steps, contrastTargets, i)
  IN  [id |-> << id, i >>,
       stepName |-> StepName(i),
       l |-> ToFixed3(s.currentL),
       c |-> c,
       h |-> h,
       css |-> oklch(s.currentL, c, h),
       contrastTarget |-> Lookup(contrastTargets, i),
       isContrastForced |-> s.isContrastForced]

\* generatePalette with the loop stopping one index early
generatePaletteShort(id, l, c, h, steps, contrastTargets) ==
  [k \in 1 .. Max(steps - 1, 0) |-> PaletteStep(id, c, h, steps, contrastTargets, k - 1)]

\* generatePalette(id, l, c, h, steps, contrastTargets); entry i + 1 of the
\* sequence is the step of index i.
generatePalette(id, l, c, h, steps, contrastTargets) ==
  [k \in 1 .. Max(steps, 0) |-> PaletteStep(id, c, h, steps, contrastTargets, k - 1)]

\* ----------------------------------------------- culori: parse, formatCss
\* converter('oklch')(text) for the colour texts the model uses: l in
\* thousandths, c in thousandths, h in whole degrees.  An achromatic colour
\* has no hue; a text that is not a colour gives undefined.
Colour(l, c, h) == [type |-> "color", l |-> l, c |-> c, h |-> h]

CuloriOklch ==
  "#78787C" :> Colour(574, 6, Num(286)) @@
  "#5B67E8" :> Colour(575, 193, Num(275)) @@
  "#747695" :> Colour(576, 48, Num(282)) @@
  "#9A6588" :> Colour(575, 83, Num(340)) @@
  "#E20314" :> Colour(575, 234, Num(28)) @@
  "#CD4400" :> Colour(575, 183, Num(39)) @@
  "#937502" :> Colour(575, 117, Num(91)) @@
  "#268F4F" :> Colour(576, 135, Num(152)) @@
  "#2B8697" :> Colour(575, 87, Num(213)) @@
  "#066CFF" :> Colour(575, 233, Num(260)) @@
  "#8747F7" :> Colour(575, 244, Num(294)) @@
  "#D8027B" :> Colour(575, 234, Num(357)) @@
  "#9E50C3" :> Colour(575, 182, Num(313)) @@
  "#797784" :> Colour(575, 20, Num(293)) @@
  "#ffffff" :> Colour(1000, 0, Undefined)

ToOklch(text) ==
  IF text \in DOMAIN CuloriOklch THEN CuloriOklch[text] ELSE Undefined

\* hexToOklch(hex): null when the text does not parse; h: color.h || 0
hexToOklch(hex) ==
  LET color == ToOklch(hex)
  IN  IF color = Undefined THEN Null
      ELSE [type |-> "color", l |-> color.l, c |-> color.c,
            h |-> IF Truthy(color.h) THEN color.h.val ELSE 0]

\* oklchToHex(l, c, h) = formatCss({mode: 'oklch', l, c, h, alpha: 1}),
\* the text "oklch(l c h)"
oklchToHex(l, c, h) == << "oklch(", l, c, h >>

\* --------------------------------------------------------- parseFloat
DigitChars == { Digit[k] : k \in DOMAIN Digit }

DigitValue(ch) == (CHOOSE k \in DOMAIN Digit : Digit[k] = ch) - 1

\* first position at or after k that is not a decimal digit
RECURSIVE DigitsEnd(_, _)
DigitsEnd(s, k) ==
  IF k <= Len(s) /\ s[k] \in DigitChars THEN DigitsEnd(s, k + 1) ELSE k

\* value of the digits s[a] .. s[b - 1]
RECURSIVE DigitsValue(_, _, _)
DigitsValue(s, a, b) ==
  IF b <= a THEN 0
  ELSE 10 * DigitsValue(s, a, b - 1) + DigitValue(s[b - 1])

\* thousandths given by the first three of the fraction digits s[a] .. s[b - 1]
FractionValue(s, a, b) ==
  (IF a < b THEN 100 * DigitValue(s[a]) ELSE 0)
  + (IF a + 1 < b THEN 10 * DigitValue(s[a + 1]) ELSE 0)
  + (IF a + 2 < b THEN DigitValue(s[a + 2]) ELSE 0)

\* parseFloat of a text given as a sequence of characters: an optional sign,
\* digits, an optional point and digits; NaN when there is no digit.  The
\* number is returned in thousandths.
ParseFloat(s) ==
  LET signed == Len(s) >= 1 /\ s[1] \in {"-", "+"}
      a == IF signed THEN 2 ELSE 1
      b == DigitsEnd(s, a)
      hasPoint == b <= Len(s) /\ s[b] = "."
      e == IF hasPoint THEN DigitsEnd(s, b + 1) ELSE b
      magnitude == 1000 * DigitsValue(s, a, b)
                   + (IF hasPoint THEN FractionValue(s, b + 1, e) ELSE 0)
  IN  IF (b - a) + (IF hasPoint THEN e - (b + 1) ELSE 0) = 0
      THEN NaN
      ELSE Num(IF signed /\ s[1] = "-" THEN -magnitude ELSE magnitude)

\* ------------------------------------------------------------------ state
VARIABLES
  steps,            \* App: steps per colour
  globalChroma,     \* App: global chroma, hundredths
  contrastTargets,  \* App: object, key `${index}` -> Num(target) or Null
  palettes,         \* App: sequence of families [id, l, h]
  hexInput,         \* PaletteRow: hex input text of the row of each family id
  storage,          \* localStorage item 'oklch-generator-state', or Null
  clock,            \* Date.now()
  args,             \* arguments of a direct generatePalette call
  palette           \* the sequence that call returned, << >> before it

vars == << steps, globalChroma, contrastTargets, palettes, hexInput, storage,
           clock, args, palette >>

appVars == << steps, globalChroma, contrastTargets, palettes, hexInput,
              storage, clock >>

\* ------------------------------------------------------------ model inputs
\* texts typed into a contrast target field
TargetTexts == { << >>, << "0" >>, << "4", ".", "5" >> }
\* contrast target columns the model edits
TargetColumns == { 1 }
\* positions of the global chroma slider
ChromaTexts == { << "0" >>, << "0", ".", "4" >> }
\* positions of a hue slider
HueTexts == { << "0" >> }
\* texts typed into a hex field
HexTexts == { "#ffffff", "#12" }
\* results of randomColor(): lightness in thousandths and hue
RandomColors == { [l |-> 650, h |-> 28] }

PRESET_COLORS ==
  << "#78787C", "#5B67E8", "#747695", "#9A6588",
     "#E20314", "#CD4400", "#937502", "#268F4F",
     "#2B8697", "#066CFF", "#5B67E8", "#8747F7",
     "#D8027B", "#8747F7", "#9E50C3", "#797784" >>

\* a parsed number in hundredths (chroma) and in whole units (hue)
Hundredths(x) == x.val \div 10
Units(x) == x.val \div 1000

\* ------------------------------------------------------------ persistence
\* JSON.stringify of a number: NaN and Infinity become null
JsonNumber(x) == IF x.type \in {"NaN", "Infinity"} THEN Null ELSE x

\* JSON.stringify({ steps, globalChroma, contrastTargets, palettes })
Stringify(st, gc, ct, ps) ==
  [type |-> "item",
   steps |-> st,
   globalChroma |-> gc,
   contrastTargets |-> [k \in DOMAIN ct |-> JsonNumber(ct[k])],
   palettes |-> ps]

\* loadState(): JSON.parse of the stored item, null without one
loadState(item) == item

DefaultPalettes ==
  << [id |-> "primary", l |-> 600, h |-> 260],
     [id |-> "secondary", l |-> 700, h |-> 140] >>

\* the four useState initialisers: initialState?.x || default
InitialSteps(initialState) ==
  IF initialState # Null /\ initialState.steps # 0
  THEN initialState.steps ELSE 18

InitialChroma(initialState) ==
  IF initialState # Null /\ initialState.globalChroma # 0
  THEN initialState.globalChroma ELSE 15

InitialTargets(initialState) ==
  IF initialState # Null THEN initialState.contrastTargets ELSE << >>

InitialPalettes(initialState) ==
  IF initialState # Null THEN initialState.palettes ELSE DefaultPalettes

\* ------------------------------------------------------------ PaletteRow
Ids(ps) == { ps[k].id : k \in DOMAIN ps }
Family(ps, id) == ps[CHOOSE k \in DOMAIN ps : ps[k].id = id]

\* hexInput of every row after a render with families ps and chroma gc: a row
\* that is new gets useState(oklchToHex(l, c, h)); the effect of a row whose
\* l, globalChroma or h changed sets it to oklchToHex(l, c, h); otherwise the
\* row keeps its text.
SyncHex(ps, gc, text) ==
  [id \in Ids(ps) |->
     IF /\ id \in DOMAIN text
        /\ id \in Ids(palettes)
        /\ Family(palettes, id).l = Family(ps, id).l
        /\ Family(palettes, id).h = Family(ps, id).h
        /\ globalChroma = gc
     THEN text[id]
     ELSE oklchToHex(Family(ps, id).l, gc, Family(ps, id).h)]

\* const paletteSteps = generatePalette(id, l, globalChroma, h, steps, contrastTargets)
paletteSteps(color) ==
  generatePalette(color.id, color.l, globalChroma, color.h, steps, contrastTargets)

\* a property of a JavaScript object
Prop(obj, name) == IF name \in DOMAIN obj THEN obj[name] ELSE Undefined

\* {step.contrast.toFixed(2)}:1 -- a TypeError when step.contrast is undefined
StepContrastText(step) ==
  IF Prop(step, "contrast") = Undefined
  THEN [error |-> "TypeError"]
  ELSE [text |-> (Prop(step, "contrast").val + 5) \div 10]

\* ------------------------------------------------------------- App actions
\* The handlers are described as the source defines them.  What a row renders
\* (paletteSteps, StepContrastText) is a value derived from the state and does
\* not gate the handlers.
\* The state setters of one handler followed by the render and the effects it
\* causes: the rows' hex inputs are synchronised and the state is saved.
Commit(st, gc, ct, ps, text) ==
  /\ steps' = st
  /\ globalChroma' = gc
  /\ contrastTargets' = ct
  /\ palettes' = ps
  /\ hexInput' = SyncHex(ps, gc, text)
  /\ storage' = Stringify(st, gc, ct, ps)

\* mounting App with the stored item
Mount(item) ==
  LET initialState == loadState(item)
      ps == InitialPalettes(initialState)
      gc == InitialChroma(initialState)
  IN  /\ steps = InitialSteps(initialState)
      /\ globalChroma = gc
      /\ contrastTargets = InitialTargets(initialState)
      /\ palettes = ps
      /\ hexInput = [id \in Ids(ps) |-> oklchToHex(Family(ps, id).l, gc, Family(ps, id).h)]
      /\ storage = Stringify(InitialSteps(initialState), gc,
                             InitialTargets(initialState), ps)

NoCall == [id |-> "", l |-> 0, c |-> 0, h |-> 0, steps |-> 0,
           contrastTargets |-> << >>]

Init ==
  /\ Mount(Null)
  /\ clock = 1
  /\ args = NoCall
  /\ palette = << >>

\* reloading the page: App is mounted again from the stored item
Reload ==
  LET initialState == loadState(storage)
      ps == InitialPalettes(initialState)
      gc == InitialChroma(initialState)
  IN  /\ steps' = InitialSteps(initialState)
      /\ globalChroma' = gc
      /\ contrastTargets' = InitialTargets(initialState)
      /\ palettes' = ps
      /\ hexInput' = [id \in Ids(ps) |-> oklchToHex(Family(ps, id).l, gc, Family(ps, id).h)]
      /\ storage' = Stringify(InitialSteps(initialState), gc,
                              InitialTargets(initialState), ps)
      /\ UNCHANGED << clock, args, palette >>

\* handleStepsChange without the floor Math.max(3, ...)
handleStepsChangeNoFloor(delta) ==
  /\ steps + delta <= MaxSteps
  /\ steps + delta >= 1
  /\ Commit(steps + delta, globalChroma, contrastTargets, palettes, hexInput)
  /\ UNCHANGED << clock, args, palette >>

\* handleStepsChange(delta): setSteps(Math.max(3, steps + delta))
handleStepsChange(delta) ==
  /\ steps + delta <= MaxSteps
  /\ Commit(Max(3, steps + delta), globalChroma, contrastTargets, palettes, hexInput)
  /\ UNCHANGED << clock, args, palette >>

setGlobalChroma(text) ==
  /\ Commit(steps, Hundredths(ParseFloat(text)), contrastTargets, palettes, hexInput)
  /\ UNCHANGED << clock, args, palette >>

\* isNaN(val) ? null : val, for val = parseFloat(value)
TargetEntry(value) ==
  LET val == ParseFloat(value)
  IN  IF val = NaN THEN Null ELSE val

handleContrastChange(index, value) ==
  LET key == DecimalString(index)
      entry == TargetEntry(value)
  IN  /\ index < steps
      /\ Commit(steps, globalChroma,
                [k \in DOMAIN contrastTargets \cup {key} |->
                   IF k = key THEN entry ELSE contrastTargets[k]],
                palettes, hexInput)
      /\ UNCHANGED << clock, args, palette >>

addPalette(random) ==
  LET newId == "color-" \o DecimalString(clock)
  IN  /\ Len(palettes) < MaxPalettes
      /\ clock < MaxClock
      /\ clock' = clock + 1
      /\ Commit(steps, globalChroma, contrastTargets,
                Append(palettes, [id |-> newId, l |-> random.l, h |-> random.h]),
                hexInput)
      /\ UNCHANGED << args, palette >>

removePalette(id) ==
  /\ Commit(steps, globalChroma, contrastTargets,
            SelectSeq(palettes, LAMBDA p : p.id # id), hexInput)
  /\ UNCHANGED << clock, args, palette >>

\* updatePalette without the test p.id === id
updatePaletteAll(ps, id, newProps) ==
  [k \in DOMAIN ps |-> newProps]

\* updatePalette(id, newProps) applied to the families ps
updatePalette(ps, id, newProps) ==
  [k \in DOMAIN ps |-> IF ps[k].id = id THEN newProps ELSE ps[k]]

\* PaletteRow.handleParamChange('h', value) of the row of `color`
handleParamChange(color, value) ==
  /\ Commit(steps, globalChroma, contrastTargets,
            updatePalette(palettes, color.id,
                          [color EXCEPT !.h = Units(ParseFloat(value))]),
            hexInput)
  /\ UNCHANGED << clock, args, palette >>

\* PaletteRow.handleHexChange of the row of `color`
handleHexChange(color, newHex) ==
  LET parsed == hexToOklch(newHex)
      typed == [hexInput EXCEPT ![color.id] = << newHex >>]
  IN  /\ IF parsed # Null
         THEN Commit(steps, globalChroma, contrastTargets,
                     updatePalette(palettes, color.id,
                                   [color EXCEPT !.l = parsed.l, !.h = parsed.h]),
                     typed)
         ELSE /\ hexInput' = typed
              /\ UNCHANGED << steps, globalChroma, contrastTargets, palettes,
                              storage >>
      /\ UNCHANGED << clock, args, palette >>

\* the families built by loadPresets
PresetPalettes ==
  LET made == [index \in DOMAIN PRESET_COLORS |->
                 LET parsed == hexToOklch(PRESET_COLORS[index])
                 IN  IF parsed # Null
                     THEN [id |-> "preset-" \o DecimalString(index - 1),
                           l |-> parsed.l, h |-> parsed.h]
                     ELSE Null]
  IN  SelectSeq(made, LAMBDA p : p # Null)

loadPresets ==
  /\ Commit(steps, globalChroma, contrastTargets, PresetPalettes, hexInput)
  /\ UNCHANGED << clock, args, palette >>

\* the row whose hue and hex controls the model operates: the first row
Rows == { palettes[k] : k \in DOMAIN palettes \cap {1} }

\* the row whose remove button the model presses: the last row
LastRows == { palettes[k] : k \in DOMAIN palettes \cap {Len(palettes)} }

Next ==
  \/ \E delta \in {-1, 1} : handleStepsChange(delta)
  \/ \E text \in ChromaTexts : setGlobalChroma(text)
  \/ \E index \in TargetColumns, value \in TargetTexts :
       handleContrastChange(index, value)
  \/ \E random \in RandomColors : addPalette(random)
  \/ \E color \in LastRows : removePalette(color.id)
  \/ \E color \in Rows, value \in HueTexts : handleParamChange(color, value)
  \/ \E color \in Rows, newHex \in HexTexts : handleHexChange(color, newHex)
  \/ loadPresets
  \/ Reload

Spec == Init /\ [][Next]_vars

\* ------------------------------------- direct calls of generatePalette
\* inputs of the calls: chroma (hundredths), hue, base lightness, the texts
\* whose parsed value is a target, and the indices that may carry a target
GenChromas == { 0, 15, 40 }
GenHues == { 140, 260 }
GenLightness == { 600, 700 }
GenTargetTexts == { << >>, << "0" >>, << "0", ".", "5" >>, << "4", ".", "5" >>,
                    << "2", "5" >>, << "-", "1" >> }
GenTargetIndices == { 1, 18 }

GenTargetMaps ==
  UNION { [ { DecimalString(i) : i \in idx } -> { TargetEntry(t) : t \in GenTargetTexts } ] :
          idx \in SUBSET GenTargetIndices }

GenInit ==
  /\ Mount(Null)
  /\ clock = 1
  /\ args \in [ id : {"primary"}, l : GenLightness, c : GenChromas, h : GenHues,
                steps : 2 .. MaxGenSteps, contrastTargets : GenTargetMaps ]
  /\ palette = << >>

Generate ==
  /\ palette = << >>
  /\ palette' = generatePalette(args.id, args.l, args.c, args.h, args.steps,
                                args.contrastTargets)
  /\ UNCHANGED << appVars, args >>

GenNext == Generate

SpecGen == GenInit /\ [][GenNext]_vars

\* ================================================================ claims
\* index i carries no contrast target: the entry is absent or null
Unconstrained(targets, i) == Lookup(targets, i) \in {Undefined, Null}

\* the families currently shown
Families == { palettes[k] : k \in DOMAIN palettes }

\* C1: a call generatePalette(id, l, c, h, steps, contrastTargets) returns
\* exactly `steps` entries, entry i being the step of index i, and every
\* entry has the chroma and the hue of the call.
C1_Shape ==
  palette # << >> =>
    /\ DOMAIN palette = 1 .. args.steps
    /\ \A k \in DOMAIN palette :
         /\ palette[k].id = << args.id, k - 1 >>
         /\ palette[k].c = args.c
         /\ palette[k].h = args.h

\* C1 witness: a returned palette of 19 steps with a forced and an unforced step
C1_Witness ==
  /\ palette # << >>
  /\ args.steps = 19
  /\ \E k \in DOMAIN palette : palette[k].isContrastForced
  /\ \E k \in DOMAIN palette : ~palette[k].isContrastForced

\* C2 (as claimed): in every row, step i is contrast forced exactly when
\* contrastTargets has a non-null entry at index i.
C2_ForcedIffNonNull ==
  \A color \in Families :
    \A k \in DOMAIN paletteSteps(color) :
      paletteSteps(color)[k].isContrastForced
        <=> ~Unconstrained(contrastTargets, k - 1)

\* C3 (as claimed): every step a row renders carries a contrast number, so
\* formatting it to 2 decimals never fails.
C3_ContrastDefined ==
  \A color \in Families :
    \A k \in DOMAIN paletteSteps(color) :
      /\ "contrast" \in DOMAIN paletteSteps(color)[k]
      /\ StepContrastText(paletteSteps(color)[k]) # [error |-> "TypeError"]

RECURSIVE Midpoints(_, _, _, _, _, _)
Midpoints(c, h, t, k, lo, hi) ==
  IF k > 20 THEN << >>
  ELSE LET mid == (lo + hi) \div 2
       IN  << mid >> \o (IF WcagContrast(mid, c, h) < t
                         THEN Midpoints(c, h, t, k + 1, lo, mid)
                         ELSE Midpoints(c, h, t, k + 1, mid, hi))

C7_StepFloor ==
  /\ steps >= 3
  /\ InitialSteps(loadState(storage)) >= 3
  /\ steps - 1 # 0

\* C7 witness: the floor is reached (15 '-' clicks from the default 18)
C7_Witness ==
  /\ steps = 3
  /\ storage.steps = 3
  /\ palettes # << >>

\* the families other than `id` and all the other App state are unchanged
OthersUnchanged(id) ==
  /\ Len(palettes') = Len(palettes)
  /\ \A k \in DOMAIN palettes :
       IF palettes[k].id = id
       THEN palettes'[k].id = id
       ELSE palettes'[k] = palettes[k]
  /\ steps' = steps
  /\ globalChroma' = globalChroma
  /\ contrastTargets' = contrastTargets

C9_StepNames ==
  palette # << >> =>
    \A k \in DOMAIN palette :
      /\ k <= 18 => palette[k].stepName = STEP_NAMES[k]
      /\ k > 18 => palette[k].stepName = DecimalString(k - 1)
      /\ k = 19 => palette[k].stepName = "18"
      /\ palette[k].stepName = StepLabel(k - 1)

\* C9 witness: a returned palette of 19 steps, the last one named "18"
C9_Witness ==
  /\ palette # << >>
  /\ args.steps = 19
  /\ palette[18].stepName = "0"
  /\ palette[19].stepName = "18"

\* C10 (as claimed): the stored state is the current state and a restart
\* from it restores steps, globalChroma, contrastTargets and palettes.
C10_RoundTrip ==
  /\ storage = Stringify(steps, globalChroma, contrastTargets, palettes)
  /\ InitialSteps(loadState(storage)) = steps
  /\ InitialChroma(loadState(storage)) = globalChroma
  /\ InitialTargets(loadState(storage)) = contrastTargets
  /\ InitialPalettes(loadState(storage)) = palettes

====
